---------------------------- MODULE Spec2Model ----------------------------
(***************************************************************************)
(* Model of the stock-quote resolution pipeline of momentum-hub:           *)
(*   src/src/services/polygonApi.ts   (PolygonApiService)                  *)
(*   src/src/utils/stockDataService.ts (StockDataService)                  *)
(*                                                                         *)
(* Numbers: prices are integers.  JavaScript "truthy" for a number is      *)
(* "not 0".  An optional field is a sequence of length 0 (absent) or 1.    *)
(* A percentage (a / b * 100) is kept as the exact fraction                *)
(* [num |-> a * 100, den |-> b]; den = 0 is the IEEE result of a division  *)
(* by zero (NaN when num = 0, an infinity otherwise).                      *)
(*                                                                         *)
(*   src/unnamed/part_002             (Watchlist, kept in localStorage)    *)
(*                                                                         *)
(* Four specifications:                                                    *)
(*   SpecQuote   one getStockData call (the waterfall of getQuote, the     *)
(*               details lookup, the conversion), every upstream answer;   *)
(*   Spec        one getMultipleStocksData call (groups, join, delay);     *)
(*   SpecPacing  one getMultipleStocksData call at every hour of the week, *)
(*               against an upstream that answers 429;                     *)
(*   SpecWatch   the Watchlist component and its refreshes.                *)
(***************************************************************************)
EXTENDS Integers, Sequences, FiniteSets, TLC

VARIABLES
    now,        \* the wall clock: [day |-> 0..6 (0 = Sunday), hour |-> 0..23]
    apiKey,     \* PolygonApiService.apiKey is set (TRUE) or undefined (FALSE)
    call,       \* SpecQuote: the getStockData call, before and after it ran
    symbols,    \* Spec: the argument of getMultipleStocksData
    mpc,        \* Spec: where getMultipleStocksData is
    i,          \* Spec: the loop variable i (0-based, as in the source)
    batchSize,  \* Spec: const batchSize
    delay,      \* Spec: const delay
    calledAt,   \* Spec: the clock when getMultipleStocksData was called
    pending,    \* Spec: slots (1-based positions of symbols) still in flight
    startedAt,  \* Spec: the clock when the group in flight was started
    own,        \* Spec: per slot, what its own getStockData returned (<<>> before)
    results,    \* Spec: the results object, symbol -> data
    groups,     \* Spec: history, the batches issued (sequences of slots)
    delays,     \* Spec: history, the setTimeout delays awaited
    ticks,      \* Spec: how many times the clock advanced during the call
    failHttp,   \* Spec: the HTTP status of the upstream's failures in this run
    mounted,    \* SpecWatch: the mount effect of Watchlist has run
    storage,    \* SpecWatch: localStorage 'mphinance_watchlist'
    stocks,     \* SpecWatch: the stocks state
    isRefreshing,   \* SpecWatch: the isRefreshing state
    inFlight,   \* SpecWatch: the refreshAllStocks calls awaiting their data
    sinceInterval,  \* SpecWatch: minutes since the auto-refresh interval was set
    sinceAuto,  \* SpecWatch: minutes since the interval last fired (or the mount),
                \*            counted up to IntervalMinutes + 1
    applied,    \* SpecWatch: the mapping the last step's refresh applied (<<>> if none)
    isOpen,     \* SpecModal: the add-stock modal is shown
    searchQuery,    \* SpecModal: the searchQuery state
    searchResults,  \* SpecModal: the searchResults state
    selectedStock,  \* SpecModal: the selectedStock state (<<>> for null)
    stockData,  \* SpecModal: the stockData state (<<>> for null)
    added,      \* SpecModal: the stock handed to onAdd (<<>> if none yet)
    marketData, \* SpecSummary: the marketData state
    error,      \* SpecSummary: the error state ("" for null)
    fetched,    \* SpecSummary: what getMultipleStocksData resolved to (<<>> before)
    docs,       \* SpecDb: ids of the documents of the user's watchlist collection
    dbStocks,   \* SpecDb: the stocks state of the database-backed Watchlist
    selectedStockIds,   \* SpecDb: the selectedStockIds state
    searchTerm, \* SpecDb: the searchTerm state
    selectedTags    \* SpecDb: the selectedTags state

vars == <<now, apiKey, call, symbols, mpc, i, batchSize, delay, calledAt, pending,
          startedAt, own, results, groups, delays, ticks, failHttp,
          mounted, storage, stocks, isRefreshing, inFlight, sinceInterval,
          sinceAuto, applied,
          isOpen, searchQuery, searchResults, selectedStock, stockData, added,
          marketData, error, fetched,
          docs, dbStocks, selectedStockIds, searchTerm, selectedTags>>

batchVars == <<symbols, mpc, i, batchSize, delay, calledAt, pending, startedAt, own,
               results, groups, delays, ticks, failHttp>>

watchVars == <<mounted, storage, stocks, isRefreshing, inFlight, sinceInterval,
               sinceAuto, applied>>

modalVars == <<isOpen, searchQuery, searchResults, selectedStock, stockData, added>>

summaryVars == <<marketData, error, fetched>>

dbVars == <<docs, dbStocks, selectedStockIds, searchTerm, selectedTags>>

uiVars == <<modalVars, summaryVars, dbVars>>

-----------------------------------------------------------------------------
(* Bounds *)

MaxSymbols == 5
MaxTicks == 1
MaxInFlight == 2

-----------------------------------------------------------------------------
(* Values *)

None == <<>>
Some(x) == <<x>>
IsSome(o) == Len(o) > 0
Get(o) == o[1]

\* JavaScript truthiness of a number
Truthy(n) == n # 0

\* a || b on numbers
OrElse(a, b) == IF Truthy(a) THEN a ELSE b

Abs(n) == IF n < 0 THEN -n ELSE n

Min(a, b) == IF a < b THEN a ELSE b

PctZero == [num |-> 0, den |-> 1]

\* (a / b) * 100 in IEEE arithmetic
JsDivTimes100(a, b) ==
    IF b # 0 /\ a = 0 THEN PctZero ELSE [num |-> a * 100, den |-> b]

Clock == [day : 0..6, hour : 0..23]

Symbols == {"AAPL", "XYZ"}

-----------------------------------------------------------------------------
(* The upstream data service: what one HTTP exchange can answer *)

\* http = 0: fetch itself rejects (no HTTP response at all)
ErrorResponse(http) == [http |-> http, status |-> "ERROR", results |-> <<>>]

Body(status, res) == [http |-> 200, status |-> status, results |-> res]

FailureStatuses == {401, 403, 429, 404, 0}

Bar(c, h, l, o, v) == [c |-> c, h |-> h, l |-> l, o |-> o, v |-> v]

PrevBars == {Bar(100, 101, 99, 98, 1000), Bar(0, 0, 0, 0, 0)}

\* /v2/aggs/ticker/{symbol}/prev
PrevResponses ==
    {ErrorResponse(h) : h \in FailureStatuses}
    \cup {Body("OK", <<>>), Body("NOT_FOUND", <<Bar(100, 101, 99, 98, 1000)>>)}
    \cup {Body("OK", <<b>>) : b \in PrevBars}

Snapshot(lt, lq, mn, pd, fmv) ==
    [ticker |-> None, name |-> "", last_trade |-> lt, last_quote |-> lq,
     min |-> mn, prevDay |-> pd, fmv |-> fmv]

LastTrades == {None, Some([p |-> 0, t |-> 1]), Some([p |-> 102, t |-> 1])}

LastQuotes == {None, Some([a |-> 106, b |-> 102, t |-> 1])}

MinBars == {None, Some(Bar(103, 105, 97, 101, 500))}

PrevDays == {None} \cup {Some(b) : b \in PrevBars}

Snapshots ==
    {Snapshot(lt, lq, mn, pd, None) :
        lt \in LastTrades, lq \in LastQuotes, mn \in MinBars, pd \in PrevDays}
    \cup {Snapshot(None, None, None, Some(Bar(100, 101, 99, 98, 1000)), Some(99))}
    \cup {Snapshot(Some([p |-> 190, t |-> 1]), None, None,
                    Some(Bar(188, 191, 187, 189, 1000)), None)}

\* /v2/snapshot/locale/us/markets/stocks/tickers/{symbol}
SnapResponses ==
    {ErrorResponse(h) : h \in FailureStatuses}
    \cup {Body("OK", <<>>), Body("NOT_FOUND", <<>>)}
    \cup {Body("OK", <<s>>) : s \in Snapshots}

\* /v3/reference/tickers/{symbol}
DetailsResponses ==
    {ErrorResponse(401), ErrorResponse(0), Body("OK", <<>>),
     Body("OK", <<[name |-> "Apple Inc.", primary_exchange |-> "XNAS"]>>)}

-----------------------------------------------------------------------------
(* PolygonApiService *)

Throw(e) == [error |-> e, status |-> "", results |-> <<>>]

Return(r) == [error |-> "", status |-> r.status, results |-> r.results]

makeRequest(key, r) ==
    IF ~key THEN Throw("ConfigurationError")
    ELSE IF r.http = 0 THEN Throw("NetworkError")
    ELSE IF r.http # 200
         THEN IF r.http = 401 THEN Throw("Unauthorized")
              ELSE IF r.http = 403 THEN Throw("Forbidden")
              ELSE IF r.http = 429 THEN Throw("RateLimited")
              ELSE Throw("HttpError")
    ELSE Return(r)

\* what awaiting makeRequest can give: without a key no request is sent
RequestOutcomes(key, R) == {makeRequest(key, r) : r \in R}

isWeekend(t) == t.day = 0 \/ t.day = 6

isMarketHours(t) ==
    IF t.day = 0 \/ t.day = 6 THEN FALSE
    ELSE t.hour >= 4 /\ t.hour <= 20

\* the market value the fallback of getMarketStatus computes from the clock
getMarketStatus(t) ==
    IF t.day >= 1 /\ t.day <= 5
    THEN IF t.hour >= 9 /\ t.hour < 16 THEN "open"
         ELSE IF t.hour >= 4 /\ t.hour < 9 THEN "extended-hours"
         ELSE IF t.hour >= 16 /\ t.hour < 20 THEN "extended-hours"
         ELSE "closed"
    ELSE "closed"

\* getQuote, the two result-building blocks
PrevCloseResult(symbol, out) ==
    IF out.error = "" /\ out.status = "OK" /\ Len(out.results) > 0
    THEN Some([ticker |-> Some(symbol), name |-> "", last_trade |-> None,
               last_quote |-> None, min |-> None,
               prevDay |-> Some(Bar(out.results[1].c, out.results[1].h,
                                    out.results[1].l, out.results[1].o,
                                    out.results[1].v)),
               fmv |-> None])
    ELSE None

SnapshotResult(out) ==
    IF out.error = "" /\ out.status = "OK" /\ Len(out.results) > 0
    THEN Some(out.results[1])
    ELSE None

Attempt(endpoint, out, res) == [endpoint |-> endpoint, out |-> out, result |-> res]

\* "if (!result)": no attempt so far has produced a result
NoResult(att) == Len(att) = 0 \/ ~IsSome(att[Len(att)].result)

\* FirstPrevClose that asks the previous close first at any time
FirstPrevClose_Always(symbol, t, key, PrevR) ==
    {<<Attempt("prev", o, PrevCloseResult(symbol, o))>> :
        o \in RequestOutcomes(key, PrevR)}

\* the first block: previous close first, on weekends and off-hours
FirstPrevClose(symbol, t, key, PrevR) ==
    IF isWeekend(t) \/ ~isMarketHours(t)
    THEN {<<Attempt("prev", o, PrevCloseResult(symbol, o))>> :
             o \in RequestOutcomes(key, PrevR)}
    ELSE {<<>>}

\* TrySnapshot that asks the snapshot whatever the previous close gave
TrySnapshot_Always(att, key, SnapR) ==
    {Append(att, Attempt("snapshot", o, SnapshotResult(o))) :
        o \in RequestOutcomes(key, SnapR)}

TrySnapshot(att, key, SnapR) ==
    IF NoResult(att)
    THEN {Append(att, Attempt("snapshot", o, SnapshotResult(o))) :
             o \in RequestOutcomes(key, SnapR)}
    ELSE {att}

\* FinalPrevClose that gives up when the step before it threw
FinalPrevClose_GivesUpOnError(att, symbol, key, PrevR) ==
    IF NoResult(att) /\ (Len(att) = 0 \/ att[Len(att)].out.error = "")
    THEN {Append(att, Attempt("prev", o, PrevCloseResult(symbol, o))) :
             o \in RequestOutcomes(key, PrevR)}
    ELSE {att}

FinalPrevClose(att, symbol, key, PrevR) ==
    IF NoResult(att)
    THEN {Append(att, Attempt("prev", o, PrevCloseResult(symbol, o))) :
             o \in RequestOutcomes(key, PrevR)}
    ELSE {att}

\* every sequence of endpoint attempts one getQuote call can make
QuoteAttempts(symbol, t, key, PrevR, SnapR) ==
    UNION {FinalPrevClose(a2, symbol, key, PrevR) :
              a2 \in UNION {TrySnapshot(a1, key, SnapR) :
                               a1 \in FirstPrevClose(symbol, t, key, PrevR)}}

\* TransformQuote that takes the ask for the last trade's price
TransformQuote_TradeFromAsk(symbol, result) ==
    [ticker |-> IF IsSome(result.ticker) THEN Get(result.ticker) ELSE symbol,
     name |-> result.name,
     last_trade |-> IF IsSome(result.last_trade)
                    THEN Some([price |-> IF IsSome(result.last_quote)
                                         THEN Get(result.last_quote).a
                                         ELSE Get(result.last_trade).p,
                               timestamp |-> Get(result.last_trade).t])
                    ELSE None,
     last_quote |-> IF IsSome(result.last_quote)
                    THEN Some([price |-> (Get(result.last_quote).a
                                          + Get(result.last_quote).b) \div 2,
                               timestamp |-> Get(result.last_quote).t])
                    ELSE None,
     min |-> result.min,
     prevDay |-> result.prevDay,
     fmv |-> result.fmv]

\* "Transform the data to our PolygonQuote format"
TransformQuote(symbol, result) ==
    [ticker |-> IF IsSome(result.ticker) THEN Get(result.ticker) ELSE symbol,
     name |-> result.name,
     last_trade |-> IF IsSome(result.last_trade)
                    THEN Some([price |-> Get(result.last_trade).p,
                               timestamp |-> Get(result.last_trade).t])
                    ELSE None,
     last_quote |-> IF IsSome(result.last_quote)
                    THEN Some([price |-> (Get(result.last_quote).a
                                          + Get(result.last_quote).b) \div 2,
                               timestamp |-> Get(result.last_quote).t])
                    ELSE None,
     min |-> result.min,
     prevDay |-> result.prevDay,
     fmv |-> result.fmv]

\* getQuote: the quote it resolves to, or None when it throws ("No data available")
getQuote(symbol, att) ==
    IF NoResult(att) THEN None
    ELSE Some(TransformQuote(symbol, Get(att[Len(att)].result)))

\* getTickerDetails without the fallback response: a failed lookup gives no details
getTickerDetails_NoFallback(symbol, out) ==
    IF out.error # "" THEN None ELSE out.results

\* getTickerDetails: the results field of what it resolves to (it never rejects)
getTickerDetails(symbol, out) ==
    IF out.error # ""
    THEN Some([name |-> symbol, primary_exchange |-> "UNKNOWN"])
    ELSE out.results

-----------------------------------------------------------------------------
(* StockDataService *)

svcIsWeekend(t) == t.day = 0 \/ t.day = 6

\* svcIsMarketHours that counts the regular session only
svcIsMarketHours_RegularSession(t) ==
    IF t.day = 0 \/ t.day = 6 THEN FALSE
    ELSE t.hour >= 9 /\ t.hour < 16

svcIsMarketHours(t) ==
    IF t.day = 0 \/ t.day = 6 THEN FALSE
    ELSE t.hour >= 4 /\ t.hour <= 20

\* quote.x?.f for an optional record x and a numeric field: undefined reads as 0
\* wherever the source only tests it for truthiness or ||s it with 0
OptPrice(o) == IF IsSome(o) THEN Get(o).price ELSE 0
OptC(o) == IF IsSome(o) THEN Get(o).c ELSE 0
OptH(o) == IF IsSome(o) THEN Get(o).h ELSE 0
OptL(o) == IF IsSome(o) THEN Get(o).l ELSE 0
OptV(o) == IF IsSome(o) THEN Get(o).v ELSE 0

\* CurrentPrice with the flag never set in the previous-close branch
CurrentPrice_FlagNeverSet(quote) ==
    IF Truthy(OptPrice(quote.last_trade))
    THEN [currentPrice |-> OptPrice(quote.last_trade), usesPrevDayAsCurrentPrice |-> FALSE]
    ELSE IF Truthy(OptPrice(quote.last_quote))
    THEN [currentPrice |-> OptPrice(quote.last_quote), usesPrevDayAsCurrentPrice |-> FALSE]
    ELSE IF Truthy(OptC(quote.min))
    THEN [currentPrice |-> OptC(quote.min), usesPrevDayAsCurrentPrice |-> FALSE]
    ELSE [currentPrice |-> OptC(quote.prevDay), usesPrevDayAsCurrentPrice |-> FALSE]

\* CurrentPrice that prefers the last quote to the last trade
CurrentPrice_QuoteFirst(quote) ==
    IF Truthy(OptPrice(quote.last_quote))
    THEN [currentPrice |-> OptPrice(quote.last_quote), usesPrevDayAsCurrentPrice |-> FALSE]
    ELSE IF Truthy(OptPrice(quote.last_trade))
    THEN [currentPrice |-> OptPrice(quote.last_trade), usesPrevDayAsCurrentPrice |-> FALSE]
    ELSE IF Truthy(OptC(quote.min))
    THEN [currentPrice |-> OptC(quote.min), usesPrevDayAsCurrentPrice |-> FALSE]
    ELSE IF Truthy(OptC(quote.prevDay))
    THEN [currentPrice |-> OptC(quote.prevDay), usesPrevDayAsCurrentPrice |-> TRUE]
    ELSE [currentPrice |-> 0, usesPrevDayAsCurrentPrice |-> FALSE]

\* lines 33-47: the price and whether it is the previous day's close
CurrentPrice(quote) ==
    IF Truthy(OptPrice(quote.last_trade))
    THEN [currentPrice |-> OptPrice(quote.last_trade), usesPrevDayAsCurrentPrice |-> FALSE]
    ELSE IF Truthy(OptPrice(quote.last_quote))
    THEN [currentPrice |-> OptPrice(quote.last_quote), usesPrevDayAsCurrentPrice |-> FALSE]
    ELSE IF Truthy(OptC(quote.min))
    THEN [currentPrice |-> OptC(quote.min), usesPrevDayAsCurrentPrice |-> FALSE]
    ELSE IF Truthy(OptC(quote.prevDay))
    THEN [currentPrice |-> OptC(quote.prevDay), usesPrevDayAsCurrentPrice |-> TRUE]
    ELSE [currentPrice |-> 0, usesPrevDayAsCurrentPrice |-> FALSE]

\* Change whose off-hours branch assigns the price where it should assign 0
Change_OffHoursNotReset(currentPrice, prevClose, usesPrevDayAsCurrentPrice) ==
    IF currentPrice > 0 /\ prevClose > 0 /\ ~usesPrevDayAsCurrentPrice
    THEN [change |-> currentPrice - prevClose,
          changePercent |-> JsDivTimes100(currentPrice - prevClose, prevClose)]
    ELSE IF usesPrevDayAsCurrentPrice
    THEN [change |-> currentPrice,
          changePercent |-> JsDivTimes100(currentPrice, prevClose)]
    ELSE [change |-> 0, changePercent |-> PctZero]

\* Change without the prevClose > 0 test
Change_NoZeroGuard(currentPrice, prevClose, usesPrevDayAsCurrentPrice) ==
    IF currentPrice > 0 /\ ~usesPrevDayAsCurrentPrice
    THEN [change |-> currentPrice - prevClose,
          changePercent |-> JsDivTimes100(currentPrice - prevClose, prevClose)]
    ELSE [change |-> 0, changePercent |-> PctZero]

\* Change that subtracts the price from the previous close
Change_SignFlipped(currentPrice, prevClose, usesPrevDayAsCurrentPrice) ==
    IF currentPrice > 0 /\ prevClose > 0 /\ ~usesPrevDayAsCurrentPrice
    THEN [change |-> prevClose - currentPrice,
          changePercent |-> JsDivTimes100(prevClose - currentPrice, prevClose)]
    ELSE [change |-> 0, changePercent |-> PctZero]

\* lines 49-63: change and changePercent
Change(currentPrice, prevClose, usesPrevDayAsCurrentPrice) ==
    IF currentPrice > 0 /\ prevClose > 0 /\ ~usesPrevDayAsCurrentPrice
    THEN [change |-> currentPrice - prevClose,
          changePercent |-> JsDivTimes100(currentPrice - prevClose, prevClose)]
    ELSE [change |-> 0, changePercent |-> PctZero]

\* details is None (undefined) or Some(record)
convertPolygonQuoteToStock(quote, details) ==
    LET cp == CurrentPrice(quote)
        currentPrice == cp.currentPrice
        prevClose == OrElse(OptC(quote.prevDay), 0)
        ch == Change(currentPrice, prevClose, cp.usesPrevDayAsCurrentPrice)
        volume == IF Truthy(OptV(quote.min)) THEN OptV(quote.min)
                  ELSE IF Truthy(OptV(quote.prevDay)) THEN OptV(quote.prevDay)
                  ELSE 0
        useMin == Truthy(OptH(quote.min)) /\ Truthy(OptL(quote.min))
        usePrev == Truthy(OptH(quote.prevDay)) /\ Truthy(OptL(quote.prevDay))
        detailsName == IF IsSome(details) THEN Get(details).name ELSE ""
    IN  [symbol |-> quote.ticker,
         name |-> IF detailsName # "" THEN detailsName
                  ELSE IF quote.name # "" THEN quote.name
                  ELSE quote.ticker \o " Inc.",
         price |-> currentPrice,
         change |-> ch.change,
         changePercent |-> ch.changePercent,
         volume |-> volume,
         high |-> IF useMin THEN OptH(quote.min)
                  ELSE IF usePrev THEN OptH(quote.prevDay) ELSE currentPrice,
         low |-> IF useMin THEN OptL(quote.min)
                 ELSE IF usePrev THEN OptL(quote.prevDay) ELSE currentPrice,
         preMarketPrice |-> IF IsSome(quote.fmv) /\ Truthy(Get(quote.fmv))
                            THEN quote.fmv ELSE None,
         \* not fields of the source's object: the local flag of the conversion,
         \* and which of the two constructors built the object
         usesPrevDayAsCurrentPrice |-> cp.usesPrevDayAsCurrentPrice,
         isDefault |-> FALSE]

\* what the Math.random() calls of createDefaultStockData can add up to
\* (basePrice, change, and the spread added to high and taken from low)
RandomDraws ==
    {[basePrice |-> 50, change |-> -5, spread |-> 0, volume |-> 1000000],
     [basePrice |-> 200, change |-> 3, spread |-> 4, volume |-> 2000000]}

createDefaultStockData(symbol, rnd) ==
    [symbol |-> symbol,
     name |-> symbol \o " Inc.",
     price |-> rnd.basePrice,
     change |-> rnd.change,
     changePercent |-> JsDivTimes100(rnd.change, rnd.basePrice),
     volume |-> rnd.volume,
     high |-> rnd.basePrice + Abs(rnd.change) + rnd.spread,
     low |-> rnd.basePrice - Abs(rnd.change) - rnd.spread,
     preMarketPrice |-> None,
     usesPrevDayAsCurrentPrice |-> FALSE,
     isDefault |-> TRUE]

\* getStockData once its two promises have settled: att is what getQuote
\* attempted, det the outcome of the details request, rnd the random draws
StockData(symbol, att, det, rnd) ==
    LET quote == getQuote(symbol, att)
        details == getTickerDetails(symbol, det)
    IN  IF ~IsSome(quote) THEN createDefaultStockData(symbol, rnd)
        ELSE convertPolygonQuoteToStock(Get(quote), details)

\* StockDataCalls without the catch: a getQuote that found nothing rejects the call
StockDataCalls_Rethrows(symbol, t, key, PrevR, SnapR, DetR) ==
    {[symbol |-> symbol, at |-> t, attempts |-> att, details |-> det,
      thrown |-> IF IsSome(getQuote(symbol, att)) THEN "" ELSE "NoData",
      data |-> StockData(symbol, att, det, rnd)] :
        att \in QuoteAttempts(symbol, t, key, PrevR, SnapR),
        det \in RequestOutcomes(key, DetR),
        rnd \in RandomDraws}

\* every way one getStockData(symbol) call at time t can go
StockDataCalls(symbol, t, key, PrevR, SnapR, DetR) ==
    {[symbol |-> symbol, at |-> t, attempts |-> att, details |-> det,
      thrown |-> "", data |-> StockData(symbol, att, det, rnd)] :
        att \in QuoteAttempts(symbol, t, key, PrevR, SnapR),
        det \in RequestOutcomes(key, DetR),
        rnd \in RandomDraws}

-----------------------------------------------------------------------------
(* SpecQuote: one getStockData call, at any time, with and without a key *)

BatchIdle ==
    /\ symbols = <<>>
    /\ mpc = "idle"
    /\ i = 0
    /\ batchSize = 0
    /\ delay = 0
    /\ calledAt = [day |-> 0, hour |-> 0]
    /\ pending = {}
    /\ startedAt = [day |-> 0, hour |-> 0]
    /\ own = <<>>
    /\ results = <<>>
    /\ groups = <<>>
    /\ delays = <<>>
    /\ ticks = 0
    /\ failHttp = 0

\* no Watchlist is rendered
WatchIdle ==
    /\ mounted = FALSE
    /\ storage = <<>>
    /\ stocks = <<>>
    /\ isRefreshing = FALSE
    /\ inFlight = <<>>
    /\ sinceInterval = 0
    /\ sinceAuto = 0
    /\ applied = None

\* no AddStockModal is rendered
ModalIdle ==
    /\ isOpen = FALSE
    /\ searchQuery = ""
    /\ searchResults = <<>>
    /\ selectedStock = <<>>
    /\ stockData = <<>>
    /\ added = <<>>

\* no MarketSummary is rendered
SummaryIdle ==
    /\ marketData = <<>>
    /\ error = ""
    /\ fetched = <<>>

\* no database-backed Watchlist is rendered
DbIdle ==
    /\ docs = {}
    /\ dbStocks = <<>>
    /\ selectedStockIds = <<>>
    /\ searchTerm = <<>>
    /\ selectedTags = <<>>

InitQuote ==
    /\ now \in Clock
    /\ apiKey \in BOOLEAN
    /\ call = None
    /\ BatchIdle
    /\ WatchIdle
    /\ ModalIdle
    /\ SummaryIdle
    /\ DbIdle

getStockData ==
    /\ call = None
    /\ \E symbol \in Symbols :
          \E c \in StockDataCalls(symbol, now, apiKey, PrevResponses,
                                  SnapResponses, DetailsResponses) :
              call' = Some(c)
    /\ UNCHANGED <<now, apiKey>>
    /\ UNCHANGED batchVars
    /\ UNCHANGED watchVars
    /\ UNCHANGED uiVars

NextQuote == getStockData

SpecQuote == InitQuote /\ [][NextQuote]_vars

-----------------------------------------------------------------------------
(* Spec: one getMultipleStocksData call *)

\* the symbols of the lists
Universe == <<"AAPL", "MSFT", "SPY", "QQQ", "DIA", "XYZ", "TSLA", "NVDA">>

Distinct(n) == SubSeq(Universe, 1, n)

\* lists in which a symbol repeats (handleAddStock does not reject a symbol
\* that is already listed): in one group, and across groups
RepeatingLists ==
    {<<"XYZ", "XYZ", "AAPL">>, <<"AAPL", "MSFT", "AAPL">>,
     <<"AAPL", "MSFT", "AAPL", "MSFT">>}

\* callers never pass an empty list: refreshAllStocks returns early on one,
\* MarketSummary passes three symbols
SymbolLists == {Distinct(n) : n \in 1..MaxSymbols} \cup RepeatingLists

\* Saturday noon, Tuesday 10:00, Tuesday 20:00, Tuesday 03:00
StartTimes ==
    {[day |-> 6, hour |-> 12], [day |-> 2, hour |-> 10],
     [day |-> 2, hour |-> 20], [day |-> 2, hour |-> 3]}

\* what the upstream answers during a batch: the one quote it has, or the
\* failure of the run (HTTP status h)
BatchPrevResponses(h) == {ErrorResponse(h), Body("OK", <<Bar(100, 101, 99, 98, 1000)>>)}

BatchSnapResponses(h) ==
    {ErrorResponse(h),
     Body("OK", <<Snapshot(Some([p |-> 102, t |-> 1]), None, None,
                           Some(Bar(100, 101, 99, 98, 1000)), None)>>)}

BatchDetailsResponses == {ErrorResponse(0)}

WeekendBatchSize == 2
MarketBatchSize == 3
WeekendDelay == 2000
MarketDelay == 1500

\* symbols.slice(from, to), 0-based, to exclusive
Slice(seq, from, to) == SubSeq(seq, from + 1, Min(to, Len(seq)))

\* SliceSlots whose slice reaches one slot into the next group
SliceSlots_OneMore(seq, from, size) == (from + 1)..Min(from + size + 1, Len(seq))

\* the slots (1-based positions) of symbols.slice(from, from + size)
SliceSlots(seq, from, size) == (from + 1)..Min(from + size, Len(seq))

Put(f, key, v) == [x \in DOMAIN f \cup {key} |-> IF x = key THEN v ELSE f[x]]

\* one batchPromise: await getStockData, on a throw the default data
BatchEntry(c, rnd) ==
    IF c.thrown = ""
    THEN [symbol |-> c.symbol, data |-> c.data]
    ELSE [symbol |-> c.symbol, data |-> createDefaultStockData(c.symbol, rnd)]

\* forEachResult that stores no default data
RECURSIVE forEachResult_SkipDefaults(_, _, _)
forEachResult_SkipDefaults(res, entries, k) ==
    IF k > Len(entries) THEN res
    ELSE forEachResult_SkipDefaults(
             IF entries[k].data.isDefault THEN res
             ELSE Put(res, entries[k].symbol, entries[k].data),
             entries, k + 1)

\* batchResults.forEach(({symbol, data}) => results[symbol] = data), from entry k on
RECURSIVE forEachResult(_, _, _)
forEachResult(res, entries, k) ==
    IF k > Len(entries) THEN res
    ELSE forEachResult(Put(res, entries[k].symbol, entries[k].data), entries, k + 1)

\* BatchResults in which a default entry replaces the whole group's data
\* (Promise.all failing fast on the first symbol that fails)
BatchResults_FailTogether(ownv, from, size, n) ==
    LET slots == (from + 1)..Min(from + size, n)
        failed == {k \in slots : Get(ownv[k]).entry.data.isDefault}
    IN  [k \in 1..(Min(from + size, n) - from) |->
            IF failed = {} THEN Get(ownv[from + k]).entry
            ELSE [symbol |-> Get(ownv[from + k]).entry.symbol,
                  data |-> [Get(ownv[CHOOSE f \in failed : TRUE]).entry.data
                               EXCEPT !.symbol = Get(ownv[from + k]).entry.symbol]]]

\* batchResults of the group that starts at index from
BatchResults(ownv, from, size, n) ==
    [k \in 1..(Min(from + size, n) - from) |-> Get(ownv[from + k]).entry]

\* MoreGroups with <= for <
MoreGroups_OffByOne(from, size, n) == from + size <= n

\* "if (i + batchSize < symbols.length)": a delay follows this group
MoreGroups(from, size, n) == from + size < n

Init ==
    /\ now \in StartTimes
    /\ apiKey \in BOOLEAN
    /\ call = None
    /\ symbols \in SymbolLists
    /\ mpc = "idle"
    /\ i = 0
    /\ batchSize = 0
    /\ delay = 0
    /\ calledAt = [day |-> 0, hour |-> 0]
    /\ pending = {}
    /\ startedAt = [day |-> 0, hour |-> 0]
    /\ own = [k \in 1..Len(symbols) |-> None]
    /\ results = [s \in {} |-> None]
    /\ groups = <<>>
    /\ delays = <<>>
    /\ ticks = 0
    /\ failHttp = 401
    /\ WatchIdle
    /\ ModalIdle
    /\ SummaryIdle
    /\ DbIdle

\* the body of the for loop up to the await of Promise.all
StartGroup(from, size) ==
    /\ mpc' = "fetching"
    /\ i' = from
    /\ pending' = SliceSlots(symbols, from, size)
    /\ startedAt' = now
    /\ groups' = Append(groups, Slice(symbols, from, from + size))

getMultipleStocksData ==
    /\ mpc = "idle"
    /\ batchSize' = IF svcIsWeekend(now) \/ ~svcIsMarketHours(now)
                    THEN WeekendBatchSize ELSE MarketBatchSize
    /\ delay' = IF svcIsWeekend(now) \/ ~svcIsMarketHours(now)
                THEN WeekendDelay ELSE MarketDelay
    /\ calledAt' = now
    /\ StartGroup(0, batchSize')
    /\ UNCHANGED <<now, apiKey, call, symbols, own, results, delays, ticks, failHttp>>
    /\ UNCHANGED watchVars
    /\ UNCHANGED uiVars

batchPromise(slot) ==
    /\ mpc = "fetching"
    /\ slot \in pending
    /\ \E c \in StockDataCalls(symbols[slot], startedAt, apiKey,
                               BatchPrevResponses(failHttp),
                               BatchSnapResponses(failHttp), BatchDetailsResponses) :
          \E rnd \in RandomDraws :
              own' = [own EXCEPT ![slot] = Some([entry |-> BatchEntry(c, rnd), call |-> c])]
    /\ pending' = pending \ {slot}
    /\ UNCHANGED <<now, apiKey, call, symbols, mpc, i, batchSize, delay, calledAt,
                   startedAt, results, groups, delays, ticks, failHttp>>
    /\ UNCHANGED watchVars
    /\ UNCHANGED uiVars

\* Join that awaits the promises of every symbol of the list, not of the group
Join_WaitsForAll ==
    /\ mpc = "fetching"
    /\ pending = {}
    /\ \A slot \in 1..Len(symbols) : IsSome(own[slot])
    /\ results' = forEachResult(results,
                                BatchResults(own, i, batchSize, Len(symbols)), 1)
    /\ IF MoreGroups(i, batchSize, Len(symbols))
       THEN /\ mpc' = "sleeping"
            /\ delays' = Append(delays, delay)
       ELSE /\ mpc' = "returned"
            /\ delays' = delays
    /\ UNCHANGED <<now, apiKey, call, symbols, i, batchSize, delay, calledAt,
                   pending, startedAt, own, groups, ticks, failHttp>>
    /\ UNCHANGED watchVars
    /\ UNCHANGED uiVars

\* Promise.all resolves: the forEach, then the delay or the return
Join ==
    /\ mpc = "fetching"
    /\ pending = {}
    /\ results' = forEachResult(results,
                                BatchResults(own, i, batchSize, Len(symbols)), 1)
    /\ IF MoreGroups(i, batchSize, Len(symbols))
       THEN /\ mpc' = "sleeping"
            /\ delays' = Append(delays, delay)
       ELSE /\ mpc' = "returned"
            /\ delays' = delays
    /\ UNCHANGED <<now, apiKey, call, symbols, i, batchSize, delay, calledAt,
                   pending, startedAt, own, groups, ticks, failHttp>>
    /\ UNCHANGED watchVars
    /\ UNCHANGED uiVars

\* the setTimeout fires: i += batchSize, the loop test, the next group
Wake ==
    /\ mpc = "sleeping"
    /\ IF i + batchSize < Len(symbols)
       THEN StartGroup(i + batchSize, batchSize)
       ELSE /\ mpc' = "returned"
            /\ i' = i + batchSize
            /\ UNCHANGED <<pending, startedAt, groups>>
    /\ UNCHANGED <<now, apiKey, call, symbols, batchSize, delay, calledAt, own,
                   results, delays, ticks, failHttp>>
    /\ UNCHANGED watchVars
    /\ UNCHANGED uiVars

\* the clock passes an hour boundary while the call sleeps
Tick ==
    /\ mpc = "sleeping"
    /\ ticks < MaxTicks
    /\ now' = IF now.hour = 23
              THEN [day |-> (now.day + 1) % 7, hour |-> 0]
              ELSE [day |-> now.day, hour |-> now.hour + 1]
    /\ ticks' = ticks + 1
    /\ UNCHANGED <<apiKey, call, symbols, mpc, i, batchSize, delay, calledAt,
                   pending, startedAt, own, results, groups, delays, failHttp>>
    /\ UNCHANGED watchVars
    /\ UNCHANGED uiVars

Next ==
    \/ getMultipleStocksData
    \/ \E slot \in 1..Len(symbols) : batchPromise(slot)
    \/ Join
    \/ Wake
    \/ Tick

Spec == Init /\ [][Next]_vars

-----------------------------------------------------------------------------
(* SpecPacing: one getMultipleStocksData call at every hour of the week,   *)
(* the upstream answering 429 where it fails                               *)

InitPacing ==
    /\ now \in Clock
    /\ apiKey = TRUE
    /\ call = None
    /\ symbols = Distinct(MaxSymbols - 2)
    /\ mpc = "idle"
    /\ i = 0
    /\ batchSize = 0
    /\ delay = 0
    /\ calledAt = [day |-> 0, hour |-> 0]
    /\ pending = {}
    /\ startedAt = [day |-> 0, hour |-> 0]
    /\ own = [k \in 1..Len(symbols) |-> None]
    /\ results = [s \in {} |-> None]
    /\ groups = <<>>
    /\ delays = <<>>
    /\ ticks = 0
    /\ failHttp = 429
    /\ WatchIdle
    /\ ModalIdle
    /\ SummaryIdle
    /\ DbIdle

SpecPacing == InitPacing /\ [][Next]_vars

-----------------------------------------------------------------------------
(* SpecLive: one getMultipleStocksData call whose awaits are all resumed:   *)
(* every getStockData settles (each upstream request gets a response or an  *)
(* error), the continuation after Promise.all runs, and the timer fires.    *)
(* Nothing obliges the caller to call, or the clock to pass an hour.        *)

LiveLists == {Distinct(n) : n \in 1..(MaxSymbols - 2)} \cup {<<"XYZ", "XYZ", "AAPL">>}

\* Saturday noon and Tuesday 10:00
LiveTimes == {[day |-> 6, hour |-> 12], [day |-> 2, hour |-> 10]}

InitLive ==
    /\ now \in LiveTimes
    /\ apiKey \in BOOLEAN
    /\ call = None
    /\ symbols \in LiveLists
    /\ mpc = "idle"
    /\ i = 0
    /\ batchSize = 0
    /\ delay = 0
    /\ calledAt = [day |-> 0, hour |-> 0]
    /\ pending = {}
    /\ startedAt = [day |-> 0, hour |-> 0]
    /\ own = [k \in 1..Len(symbols) |-> None]
    /\ results = [s \in {} |-> None]
    /\ groups = <<>>
    /\ delays = <<>>
    /\ ticks = 0
    /\ failHttp \in FailureStatuses
    /\ WatchIdle
    /\ ModalIdle
    /\ SummaryIdle
    /\ DbIdle

SpecLive ==
    /\ InitLive
    /\ [][Next]_vars
    /\ WF_vars(\E slot \in 1..Len(symbols) : batchPromise(slot))
    /\ WF_vars(Join)
    /\ WF_vars(Wake)

-----------------------------------------------------------------------------
(* SpecWatch: the Watchlist component (src/unnamed/part_002)               *)
(*                                                                         *)
(* A refreshAllStocks call is in flight from its setIsRefreshing(true) to  *)
(* the moment the mapping of getMultipleStocksData arrives; the mapping    *)
(* holds, for each symbol asked, one of the data getStockData can return.  *)
(* Every change of the stocks state re-runs the two effects that depend on *)
(* it: the save to localStorage and the reset of the 5-minute interval.    *)

\* "5 * 60 * 1000", in minutes
IntervalMinutes == 5

\* the ids of the stocks a watchlist can hold, and the symbol each one carries
StockIds == {1, 2}

SymbolOfId(id) == IF id = 1 THEN "AAPL" ELSE "XYZ"

NoteTexts == {"", "hold"}

TagLists == {<<>>, <<"tech">>}

\* newStock as handleSubmit of the add-stock modal builds it
NewStock(id) ==
    [id |-> id, symbol |-> SymbolOfId(id), name |-> SymbolOfId(id) \o " Inc.",
     price |-> 150, change |-> 5,
     changePercent |-> [num |-> 500, den |-> 145], volume |-> 3000,
     high |-> 151, low |-> 149, preMarketPrice |-> None, notes |-> "", tags |-> <<>>]

SavedWatchlists == {<<>>, <<NewStock(1)>>, <<NewStock(1), NewStock(2)>>}

\* stocksToRefresh.map(stock => stock.symbol)
SymbolsOf(list) == [k \in 1..Len(list) |-> list[k].symbol]

\* a Tuesday at 10:00, with a key
WatchTime == [day |-> 2, hour |-> 10]

\* during a refresh the upstream has the previous close of every listed
\* symbol; its snapshot endpoint answers or the fetch rejects
WatchPrevResponses == {Body("OK", <<Bar(100, 101, 99, 98, 1000)>>)}

\* the data getStockData can return for each symbol during a refresh: the
\* live quote of the snapshot, or the previous close
WatchData ==
    [s \in {SymbolOfId(id) : id \in StockIds} |->
        {c.data : c \in StockDataCalls(s, WatchTime, TRUE, WatchPrevResponses,
                                       BatchSnapResponses(0), BatchDetailsResponses)}]

\* the mappings getMultipleStocksData(syms) can resolve to: an entry for every symbol
UpdatedData(syms) ==
    LET asked == {syms[k] : k \in 1..Len(syms)}
    IN  {f \in [asked -> UNION {WatchData[s] : s \in asked}] :
            \A s \in asked : f[s] \in WatchData[s]}

\* a percentage is truthy unless it is 0 or NaN
PctTruthy(pct) == pct.num # 0

\* a refresh that rebuilds the stock from the new data and loses the user's notes
RefreshedStock_ResetsNotes(stock, newData) ==
    [stock EXCEPT
        !.price = OrElse(newData.price, stock.price),
        !.change = OrElse(newData.change, stock.change),
        !.notes = ""]

\* lines 65-76: the stock with the new data spread over it
RefreshedStock(stock, newData) ==
    [stock EXCEPT
        !.price = OrElse(newData.price, stock.price),
        !.change = OrElse(newData.change, stock.change),
        !.changePercent = IF PctTruthy(newData.changePercent)
                          THEN newData.changePercent ELSE stock.changePercent,
        !.volume = OrElse(newData.volume, stock.volume),
        !.high = OrElse(newData.high, stock.high),
        !.low = OrElse(newData.low, stock.low),
        !.preMarketPrice = newData.preMarketPrice]

\* lines 61-80: the updater given to setStocks
UpdateStocks(prevStocks, updatedData) ==
    [k \in 1..Len(prevStocks) |->
        IF prevStocks[k].symbol \in DOMAIN updatedData
        THEN RefreshedStock(prevStocks[k], updatedData[prevStocks[k].symbol])
        ELSE prevStocks[k]]

Remove(seq, k) == SubSeq(seq, 1, k - 1) \o SubSeq(seq, k + 1, Len(seq))

IdsOf(list) == {list[k].id : k \in 1..Len(list)}

InitWatch ==
    /\ now = WatchTime
    /\ apiKey = TRUE
    /\ call = None
    /\ BatchIdle
    /\ ModalIdle
    /\ SummaryIdle
    /\ DbIdle
    /\ mounted = FALSE
    /\ storage \in SavedWatchlists
    /\ stocks = <<>>
    /\ isRefreshing = FALSE
    /\ inFlight = <<>>
    /\ sinceInterval = 0
    /\ sinceAuto = 0
    /\ applied = None

\* refreshAllStocks up to its await: nothing for an empty list
refreshAllStocks(trigger, stocksToRefresh) ==
    IF Len(stocksToRefresh) = 0
    THEN UNCHANGED <<isRefreshing, inFlight>>
    ELSE /\ isRefreshing' = TRUE
         /\ inFlight' = Append(inFlight, [trigger |-> trigger,
                                          symbols |-> SymbolsOf(stocksToRefresh)])

\* the three effects of the first render
Mount ==
    /\ ~mounted
    /\ mounted' = TRUE
    /\ stocks' = storage
    /\ storage' = storage
    /\ refreshAllStocks("mount", storage)
    /\ sinceInterval' = 0
    /\ sinceAuto' = 0
    /\ applied' = None
    /\ UNCHANGED <<now, apiKey, call>>
    /\ UNCHANGED batchVars
    /\ UNCHANGED uiVars

\* the Refresh button, disabled while isRefreshing or with no stocks
clickRefresh ==
    /\ mounted
    /\ ~isRefreshing
    /\ Len(stocks) # 0
    /\ Len(inFlight) < MaxInFlight
    /\ refreshAllStocks("manual", stocks)
    /\ applied' = None
    /\ UNCHANGED <<mounted, storage, stocks, sinceInterval, sinceAuto>>
    /\ UNCHANGED <<now, apiKey, call>>
    /\ UNCHANGED batchVars
    /\ UNCHANGED uiVars

\* intervalFires that leaves the refresh out while one is shown as running
intervalFires_Guarded ==
    /\ mounted
    /\ ~isRefreshing
    /\ sinceInterval = IntervalMinutes
    /\ Len(inFlight) < MaxInFlight
    /\ IF Len(stocks) > 0
       THEN refreshAllStocks("timer", stocks)
       ELSE UNCHANGED <<isRefreshing, inFlight>>
    /\ sinceInterval' = 0
    /\ sinceAuto' = 0
    /\ applied' = None
    /\ UNCHANGED <<mounted, storage, stocks>>
    /\ UNCHANGED <<now, apiKey, call>>
    /\ UNCHANGED batchVars
    /\ UNCHANGED uiVars

\* the callback of setInterval, five minutes after the interval was set
intervalFires ==
    /\ mounted
    /\ sinceInterval = IntervalMinutes
    /\ Len(inFlight) < MaxInFlight
    /\ IF Len(stocks) > 0
       THEN refreshAllStocks("timer", stocks)
       ELSE UNCHANGED <<isRefreshing, inFlight>>
    /\ sinceInterval' = 0
    /\ sinceAuto' = 0
    /\ applied' = None
    /\ UNCHANGED <<mounted, storage, stocks>>
    /\ UNCHANGED <<now, apiKey, call>>
    /\ UNCHANGED batchVars
    /\ UNCHANGED uiVars

\* a minute passes
Minute ==
    /\ mounted
    /\ sinceInterval < IntervalMinutes
    /\ sinceInterval' = sinceInterval + 1
    /\ sinceAuto' = Min(sinceAuto + 1, IntervalMinutes + 1)
    /\ applied' = None
    /\ UNCHANGED <<mounted, storage, stocks, isRefreshing, inFlight>>
    /\ UNCHANGED <<now, apiKey, call>>
    /\ UNCHANGED batchVars
    /\ UNCHANGED uiVars

\* refreshAllStocks from its await on: setStocks, and setIsRefreshing(false)
refreshResolves(k) ==
    /\ k \in 1..Len(inFlight)
    /\ \E updatedData \in UpdatedData(inFlight[k].symbols) :
          /\ stocks' = UpdateStocks(stocks, updatedData)
          /\ applied' = Some(updatedData)
    /\ storage' = stocks'
    /\ isRefreshing' = FALSE
    /\ inFlight' = Remove(inFlight, k)
    /\ sinceInterval' = 0
    /\ UNCHANGED <<mounted, sinceAuto>>
    /\ UNCHANGED <<now, apiKey, call>>
    /\ UNCHANGED batchVars
    /\ UNCHANGED uiVars

handleUpdateNotes(id, notes) ==
    /\ mounted
    /\ id \in IdsOf(stocks)
    /\ stocks' = [k \in 1..Len(stocks) |->
                     IF stocks[k].id = id THEN [stocks[k] EXCEPT !.notes = notes]
                     ELSE stocks[k]]
    /\ storage' = stocks'
    /\ sinceInterval' = 0
    /\ applied' = None
    /\ UNCHANGED <<mounted, isRefreshing, inFlight, sinceAuto>>
    /\ UNCHANGED <<now, apiKey, call>>
    /\ UNCHANGED batchVars
    /\ UNCHANGED uiVars

handleUpdateTags(id, newTags) ==
    /\ mounted
    /\ id \in IdsOf(stocks)
    /\ stocks' = [k \in 1..Len(stocks) |->
                     IF stocks[k].id = id THEN [stocks[k] EXCEPT !.tags = newTags]
                     ELSE stocks[k]]
    /\ storage' = stocks'
    /\ sinceInterval' = 0
    /\ applied' = None
    /\ UNCHANGED <<mounted, isRefreshing, inFlight, sinceAuto>>
    /\ UNCHANGED <<now, apiKey, call>>
    /\ UNCHANGED batchVars
    /\ UNCHANGED uiVars

handleAddStock(newStock) ==
    /\ mounted
    /\ newStock.id \notin IdsOf(stocks)
    /\ stocks' = Append(stocks, newStock)
    /\ storage' = stocks'
    /\ sinceInterval' = 0
    /\ applied' = None
    /\ UNCHANGED <<mounted, isRefreshing, inFlight, sinceAuto>>
    /\ UNCHANGED <<now, apiKey, call>>
    /\ UNCHANGED batchVars
    /\ UNCHANGED uiVars

handleRemoveStock(id) ==
    /\ mounted
    /\ id \in IdsOf(stocks)
    /\ stocks' = SelectSeq(stocks, LAMBDA stock : stock.id # id)
    /\ storage' = stocks'
    /\ sinceInterval' = 0
    /\ applied' = None
    /\ UNCHANGED <<mounted, isRefreshing, inFlight, sinceAuto>>
    /\ UNCHANGED <<now, apiKey, call>>
    /\ UNCHANGED batchVars
    /\ UNCHANGED uiVars

NextWatch ==
    \/ Mount
    \/ clickRefresh
    \/ intervalFires
    \/ Minute
    \/ \E k \in 1..Len(inFlight) : refreshResolves(k)
    \/ \E id \in StockIds, notes \in NoteTexts : handleUpdateNotes(id, notes)
    \/ \E id \in StockIds, newTags \in TagLists : handleUpdateTags(id, newTags)
    \/ \E id \in StockIds : handleAddStock(NewStock(id))
    \/ \E id \in StockIds : handleRemoveStock(id)

SpecWatch == InitWatch /\ [][NextWatch]_vars

-----------------------------------------------------------------------------
(* AddStockModal (src/unnamed/part_001) *)

modalIsWeekend(t) == t.day = 0 \/ t.day = 6

modalIsMarketHours(t) ==
    IF t.day = 0 \/ t.day = 6 THEN FALSE
    ELSE t.hour >= 9 /\ t.hour < 16

getMarketStatusMessage(t) ==
    IF modalIsWeekend(t)
    THEN "Markets are closed (Weekend). Showing last available data."
    ELSE IF ~modalIsMarketHours(t)
         THEN "Markets are closed. Showing previous close data."
         ELSE "Markets are open. Showing live data."

\* what the user can type into the search box
Queries == {"", "aapl", "AAPL", "XYZ"}

\* searchQuery.toUpperCase()
ToUpperCase(q) == IF q = "aapl" THEN "AAPL" ELSE q

\* a Tuesday at 10:00 and a Saturday at noon
ModalTimes == {[day |-> 2, hour |-> 10], [day |-> 6, hour |-> 12]}

\* searchStocks(query): the active stock tickers the upstream finds, none
\* when it finds none or when searchTickers fails (it then resolves to [])
searchStocks(key, query) ==
    IF ~key THEN {<<>>}
    ELSE {<<>>, <<[symbol |-> ToUpperCase(query), name |-> ToUpperCase(query) \o " Corp"]>>}

\* every way getStockData(symbol) can go while the modal is open
ModalCalls ==
    [key \in BOOLEAN, t \in ModalTimes, symbol \in Symbols |->
        StockDataCalls(symbol, t, key, BatchPrevResponses(401),
                       BatchSnapResponses(401), BatchDetailsResponses)]

\* lines 109-124: the stock handleSubmit hands to onAdd (its id is Date.now())
SubmittedStock(selected, data) ==
    [symbol |-> selected.symbol,
     name |-> selected.name,
     price |-> OrElse(data.price, 0),
     change |-> OrElse(data.change, 0),
     changePercent |-> IF PctTruthy(data.changePercent)
                       THEN data.changePercent ELSE PctZero,
     volume |-> OrElse(data.volume, 0),
     high |-> OrElse(data.high, OrElse(data.price, 0)),
     low |-> OrElse(data.low, OrElse(data.price, 0)),
     notes |-> "",
     tags |-> <<>>,
     preMarketPrice |-> data.preMarketPrice,
     isDefault |-> data.isDefault]

InitModal ==
    /\ now \in ModalTimes
    /\ apiKey \in BOOLEAN
    /\ call = None
    /\ BatchIdle
    /\ WatchIdle
    /\ ModalIdle
    /\ SummaryIdle
    /\ DbIdle

\* the parent shows the modal
openModal ==
    /\ ~isOpen
    /\ isOpen' = TRUE
    /\ added' = None
    /\ call' = None
    /\ UNCHANGED <<searchQuery, searchResults, selectedStock, stockData>>
    /\ UNCHANGED <<now, apiKey>>
    /\ UNCHANGED <<batchVars, watchVars, summaryVars, dbVars>>

setSearchQuery(q) ==
    /\ isOpen
    /\ searchQuery' = q
    /\ UNCHANGED <<isOpen, searchResults, selectedStock, stockData, added>>
    /\ UNCHANGED <<now, apiKey, call>>
    /\ UNCHANGED <<batchVars, watchVars, summaryVars, dbVars>>

\* lines 47-83
handleSearch ==
    /\ isOpen
    /\ searchQuery # ""
    /\ \E found \in searchStocks(apiKey, searchQuery) :
          /\ searchResults' = found
          /\ IF found = <<>>
             THEN \E c \in ModalCalls[apiKey, now, ToUpperCase(searchQuery)] :
                     /\ call' = Some(c)
                     /\ IF c.data.symbol # ""
                        THEN /\ selectedStock' =
                                    Some([symbol |-> c.data.symbol,
                                          name |-> IF c.data.name # "" THEN c.data.name
                                                   ELSE c.data.symbol \o " Inc."])
                             /\ stockData' = Some(c.data)
                        ELSE /\ selectedStock' = None
                             /\ stockData' = None
             ELSE /\ call' = None
                  /\ selectedStock' = None
                  /\ stockData' = None
    /\ UNCHANGED <<isOpen, searchQuery, added>>
    /\ UNCHANGED <<now, apiKey>>
    /\ UNCHANGED <<batchVars, watchVars, summaryVars, dbVars>>

\* lines 85-99
handleSelectStock(k) ==
    /\ isOpen
    /\ k \in 1..Len(searchResults)
    /\ selectedStock' = Some(searchResults[k])
    /\ \E c \in ModalCalls[apiKey, now, searchResults[k].symbol] :
          /\ call' = Some(c)
          /\ stockData' = Some(c.data)
    /\ UNCHANGED <<isOpen, searchQuery, searchResults, added>>
    /\ UNCHANGED <<now, apiKey>>
    /\ UNCHANGED <<batchVars, watchVars, summaryVars, dbVars>>

\* lines 101-136, past the "Please select a stock first." return
handleSubmit ==
    /\ isOpen
    /\ IsSome(selectedStock)
    /\ IsSome(stockData)
    /\ added' = Some(SubmittedStock(Get(selectedStock), Get(stockData)))
    /\ searchQuery' = ""
    /\ searchResults' = <<>>
    /\ selectedStock' = None
    /\ stockData' = None
    /\ isOpen' = FALSE
    /\ UNCHANGED <<now, apiKey, call>>
    /\ UNCHANGED <<batchVars, watchVars, summaryVars, dbVars>>

NextModal ==
    \/ openModal
    \/ \E q \in Queries : setSearchQuery(q)
    \/ handleSearch
    \/ \E k \in 1..1 : handleSelectStock(k)
    \/ handleSubmit

SpecModal == InitModal /\ [][NextModal]_vars

-----------------------------------------------------------------------------
(* MarketSummary (src/unnamed/part_006) *)

marketSymbols == <<"SPY", "QQQ", "DIA">>

\* a Tuesday at 10:00 and a Saturday at noon
SummaryTimes == {[day |-> 2, hour |-> 10], [day |-> 6, hour |-> 12]}

\* the previous close answers with an error, with a bar, or with a bar of zeros
SummaryPrevResponses ==
    BatchPrevResponses(401) \cup {Body("OK", <<Bar(0, 0, 0, 0, 0)>>)}

\* the data getStockData can return for a market symbol
SummaryData ==
    [key \in BOOLEAN, t \in SummaryTimes, s \in {"SPY", "QQQ", "DIA"} |->
        {c.data : c \in StockDataCalls(s, t, key, SummaryPrevResponses,
                                       BatchSnapResponses(401), BatchDetailsResponses)}]

\* the mappings getMultipleStocksData(symbols) can resolve to: it catches
\* every failure, so there is an entry for each of the three symbols
MarketResults(key, t) ==
    {f \in [{"SPY", "QQQ", "DIA"} ->
                UNION {SummaryData[key, t, s] : s \in {"SPY", "QQQ", "DIA"}}] :
        \A s \in {"SPY", "QQQ", "DIA"} : f[s] \in SummaryData[key, t, s]}

\* lines 38-59: the row pushed for one market symbol
FormattedRow(symbol, data) ==
    IF Truthy(data.price) /\ data.price > 0
    THEN [symbol |-> symbol, price |-> data.price,
          change |-> OrElse(data.change, 0),
          changePercent |-> IF PctTruthy(data.changePercent)
                            THEN data.changePercent ELSE PctZero]
    ELSE [symbol |-> symbol, price |-> 0, change |-> 0, changePercent |-> PctZero]

\* lines 79-83, the figures in whole dollars
fallbackData ==
    <<[symbol |-> "SPY", price |-> 445, change |-> 2,
       changePercent |-> [num |-> 48, den |-> 100]],
      [symbol |-> "QQQ", price |-> 379, change |-> -1,
       changePercent |-> [num |-> -32, den |-> 100]],
      [symbol |-> "DIA", price |-> 349, change |-> 1,
       changePercent |-> [num |-> 25, den |-> 100]]>>

InitSummary ==
    /\ now \in SummaryTimes
    /\ apiKey \in BOOLEAN
    /\ call = None
    /\ BatchIdle
    /\ WatchIdle
    /\ ModalIdle
    /\ SummaryIdle
    /\ DbIdle

\* lines 26-92, called on mount and by the 5 minute interval
fetchMarketData ==
    /\ \E data \in MarketResults(apiKey, now) :
          LET formattedData == [k \in 1..Len(marketSymbols) |->
                                   FormattedRow(marketSymbols[k], data[marketSymbols[k]])]
              validData == SelectSeq(formattedData, LAMBDA d : d.price > 0)
          IN  /\ fetched' = Some(data)
              /\ IF Len(validData) = 0
                 THEN /\ error' = "Failed to load market data"
                      /\ marketData' = fallbackData
                 ELSE /\ marketData' = formattedData
                      /\ error' = IF Len(validData) < Len(formattedData)
                                  THEN "Some market data unavailable"
                                  ELSE ""
    /\ UNCHANGED <<now, apiKey, call>>
    /\ UNCHANGED <<batchVars, watchVars, modalVars, dbVars>>

NextSummary == fetchMarketData

SpecSummary == InitSummary /\ [][NextSummary]_vars

-----------------------------------------------------------------------------
(* Watchlist backed by the database (src/src/components/Watchlist.tsx) *)
(* Strings are sequences of characters here, so that includes() is computed. *)

DbIds == {1, 2, 3}

\* the document with the given id
DbStock(id) ==
    IF id = 1 THEN [id |-> 1, symbol |-> <<"A", "A">>,
                    companyName |-> <<"A", "c", "e">>, tags |-> <<"tech">>]
    ELSE IF id = 2 THEN [id |-> 2, symbol |-> <<"M", "S">>,
                         companyName |-> <<"M", "a", "c">>, tags |-> <<>>]
    ELSE [id |-> 3, symbol |-> <<"A", "M">>,
          companyName |-> <<"A", "m", "y">>, tags |-> <<"tech">>]

SearchTerms == {<<>>, <<"a">>, <<"M", "S">>, <<"z">>}

TagFilters == {<<>>, <<"tech">>}

LowerChar(ch) ==
    IF ch = "A" THEN "a" ELSE IF ch = "M" THEN "m" ELSE IF ch = "S" THEN "s" ELSE ch

\* str.toLowerCase()
ToLowerCase(str) == [k \in 1..Len(str) |-> LowerChar(str[k])]

\* str.includes(sub)
Includes(str, sub) ==
    \E k \in 0..(Len(str) - Len(sub)) : SubSeq(str, k + 1, k + Len(sub)) = sub

\* snapshot.docs.map(...): the documents in the order of their ids
RECURSIVE DocsFrom(_, _)
DocsFrom(ids, id) ==
    IF id > 3 THEN <<>>
    ELSE (IF id \in ids THEN <<DbStock(id)>> ELSE <<>>) \o DocsFrom(ids, id + 1)

\* lines 134-143
Matches(stock, term, tagsWanted) ==
    /\ \/ Includes(ToLowerCase(stock.symbol), ToLowerCase(term))
       \/ Includes(ToLowerCase(stock.companyName), ToLowerCase(term))
    /\ \/ Len(tagsWanted) = 0
       \/ \A k \in 1..Len(tagsWanted) :
             \E j \in 1..Len(stock.tags) : stock.tags[j] = tagsWanted[k]

filteredStocks ==
    SelectSeq(dbStocks, LAMBDA stock : Matches(stock, searchTerm, selectedTags))

FilteredIds == {filteredStocks[k].id : k \in 1..Len(filteredStocks)}

SelectedIds == {selectedStockIds[k] : k \in 1..Len(selectedStockIds)}

\* line 266: the checked attribute of the select-all checkbox
SelectAllChecked ==
    Len(selectedStockIds) = Len(filteredStocks) /\ Len(filteredStocks) > 0

\* prev.filter(stockId => stockId !== id)
Without(seq, id) == SelectSeq(seq, LAMBDA x : x # id)

InitDb ==
    /\ now = WatchTime
    /\ apiKey = TRUE
    /\ call = None
    /\ BatchIdle
    /\ WatchIdle
    /\ ModalIdle
    /\ SummaryIdle
    /\ docs \in {{}, {1, 2}, {1, 2, 3}}
    /\ dbStocks = <<>>
    /\ selectedStockIds = <<>>
    /\ searchTerm = <<>>
    /\ selectedTags = <<>>

\* lines 98-113: the listener is handed the documents of the collection
onSnapshot ==
    /\ dbStocks' = DocsFrom(docs, 1)
    /\ UNCHANGED <<docs, selectedStockIds, searchTerm, selectedTags>>
    /\ UNCHANGED <<now, apiKey, call>>
    /\ UNCHANGED <<batchVars, watchVars, modalVars, summaryVars>>

\* a stock is added to the collection through the add modal
addDoc(id) ==
    /\ id \notin docs
    /\ docs' = docs \cup {id}
    /\ UNCHANGED <<dbStocks, selectedStockIds, searchTerm, selectedTags>>
    /\ UNCHANGED <<now, apiKey, call>>
    /\ UNCHANGED <<batchVars, watchVars, modalVars, summaryVars>>

\* lines 119-128, once the debounce has passed
setSearchTerm(value) ==
    /\ searchTerm' = value
    /\ UNCHANGED <<docs, dbStocks, selectedStockIds, selectedTags>>
    /\ UNCHANGED <<now, apiKey, call>>
    /\ UNCHANGED <<batchVars, watchVars, modalVars, summaryVars>>

handleTagChange(tagsWanted) ==
    /\ selectedTags' = tagsWanted
    /\ UNCHANGED <<docs, dbStocks, selectedStockIds, searchTerm>>
    /\ UNCHANGED <<now, apiKey, call>>
    /\ UNCHANGED <<batchVars, watchVars, modalVars, summaryVars>>

\* lines 147-156, from the row of a listed stock
handleDeleteStock(id) ==
    /\ id \in FilteredIds
    /\ docs' = docs \ {id}
    /\ selectedStockIds' = Without(selectedStockIds, id)
    /\ UNCHANGED <<dbStocks, searchTerm, selectedTags>>
    /\ UNCHANGED <<now, apiKey, call>>
    /\ UNCHANGED <<batchVars, watchVars, modalVars, summaryVars>>

\* lines 158-164: a click on the checkbox reports the opposite of what it shows
handleSelectAll ==
    /\ selectedStockIds' = IF ~SelectAllChecked
                           THEN [k \in 1..Len(filteredStocks) |-> filteredStocks[k].id]
                           ELSE <<>>
    /\ UNCHANGED <<docs, dbStocks, searchTerm, selectedTags>>
    /\ UNCHANGED <<now, apiKey, call>>
    /\ UNCHANGED <<batchVars, watchVars, modalVars, summaryVars>>

\* lines 166-170, from the checkbox of a listed row
handleRowSelect(id, isSelected) ==
    /\ id \in FilteredIds
    /\ isSelected = (id \notin SelectedIds)
    /\ selectedStockIds' = IF isSelected THEN Append(selectedStockIds, id)
                           ELSE Without(selectedStockIds, id)
    /\ UNCHANGED <<docs, dbStocks, searchTerm, selectedTags>>
    /\ UNCHANGED <<now, apiKey, call>>
    /\ UNCHANGED <<batchVars, watchVars, modalVars, summaryVars>>

\* lines 172-189, the confirmation accepted
handleMassDelete ==
    /\ Len(selectedStockIds) # 0
    /\ docs' = docs \ SelectedIds
    /\ selectedStockIds' = <<>>
    /\ UNCHANGED <<dbStocks, searchTerm, selectedTags>>
    /\ UNCHANGED <<now, apiKey, call>>
    /\ UNCHANGED <<batchVars, watchVars, modalVars, summaryVars>>

NextDb ==
    \/ onSnapshot
    \/ \E id \in DbIds : addDoc(id)
    \/ \E value \in SearchTerms : setSearchTerm(value)
    \/ \E tagsWanted \in TagFilters : handleTagChange(tagsWanted)
    \/ \E id \in DbIds : handleDeleteStock(id)
    \/ handleSelectAll
    \/ \E id \in DbIds, isSelected \in BOOLEAN : handleRowSelect(id, isSelected)
    \/ handleMassDelete

SpecDb == InitDb /\ [][NextDb]_vars

-----------------------------------------------------------------------------
(* Vocabulary of the properties *)

\* the session state of the specification, read off the clock the way the
\* fallback of getMarketStatus classifies it
SessionState(t) ==
    IF getMarketStatus(t) = "open" THEN "OPEN"
    ELSE IF getMarketStatus(t) = "extended-hours" THEN "EXTENDED"
    ELSE IF isWeekend(t) THEN "CLOSED_WEEKEND"
    ELSE "CLOSED_OVERNIGHT"

Called == IsSome(call)

TheCall == Get(call)

\* the getQuote of the call resolved (the resolution is "successful")
Resolved(c) == IsSome(getQuote(c.symbol, c.attempts))

QuoteOf(c) == Get(getQuote(c.symbol, c.attempts))

LastAttempt(c) == c.attempts[Len(c.attempts)]

-----------------------------------------------------------------------------
(* Properties of one getStockData call (SpecQuote) *)

\* C2 (as claimed): an Unauthorized answer makes the call fail, and it is the
\* last quote endpoint the call attempts.
C2_UnauthorizedIsFatal ==
    Called =>
        \A k \in 1..Len(TheCall.attempts) :
            TheCall.attempts[k].out.error = "Unauthorized"
                => /\ TheCall.thrown # ""
                   /\ k = Len(TheCall.attempts)

C4_DegradedHasNoChange ==
    (Called /\ TheCall.data.usesPrevDayAsCurrentPrice)
        => /\ TheCall.data.change = 0
           /\ TheCall.data.changePercent = PctZero

C4_Witness ==
    /\ Called
    /\ LastAttempt(TheCall).endpoint = "snapshot"
    /\ Resolved(TheCall)
    /\ TheCall.data.usesPrevDayAsCurrentPrice
    /\ TheCall.data.price = 100
    /\ TheCall.data.change = 0

\* the snapshot answered OK with a last trade, in the OPEN session
OpenWithLastTrade(c) ==
    /\ SessionState(c.at) = "OPEN"
    /\ Len(c.attempts) = 1
    /\ c.attempts[1].endpoint = "snapshot"
    /\ IsSome(c.attempts[1].result)
    /\ IsSome(Get(c.attempts[1].result).last_trade)

LastTradePrice(c) == Get(Get(c.attempts[1].result).last_trade).p

\* C5 (as claimed): in the OPEN session the price is the snapshot's last-trade
\* price, whatever its value (0 included).
C5_PriceIsLastTrade ==
    (Called /\ OpenWithLastTrade(TheCall))
        => TheCall.data.price = LastTradePrice(TheCall)

\* C5 (amended): in the OPEN session the price is the snapshot's last-trade
\* price whenever that price is not 0.
C5_PriceIsNonZeroLastTrade ==
    (Called /\ OpenWithLastTrade(TheCall) /\ LastTradePrice(TheCall) # 0)
        => TheCall.data.price = LastTradePrice(TheCall)

C5_Witness ==
    /\ Called
    /\ OpenWithLastTrade(TheCall)
    /\ LastTradePrice(TheCall) = 102
    /\ IsSome(Get(TheCall.attempts[1].result).last_quote)
    /\ IsSome(Get(TheCall.attempts[1].result).min)
    /\ TheCall.data.price = 102

\* C7: no changePercent is a division by zero, and with a previous close that
\* is 0 or missing both change and changePercent are 0.
C7_NoDivisionByZero ==
    (Called /\ Resolved(TheCall))
        => /\ TheCall.data.changePercent.den # 0
           /\ OptC(QuoteOf(TheCall).prevDay) = 0
                => /\ TheCall.data.changePercent = PctZero
                   /\ TheCall.data.change = 0

C7_Witness ==
    /\ Called
    /\ Resolved(TheCall)
    /\ OptC(QuoteOf(TheCall).prevDay) = 0
    /\ TheCall.data.price = 102
    /\ TheCall.data.changePercent = PctZero

\* C8 (as claimed): without an API key the call fails with a configuration
\* error and returns no quote.
C8_MissingKeyFails ==
    (Called /\ ~apiKey) => TheCall.thrown = "ConfigurationError"

\* the failures the waterfall reads as "no data at this step"
NoDataFailures == {"Forbidden", "RateLimited", "HttpError", "NetworkError"}

\* the attempt ended in such a failure, or in a body that is empty or not OK
FoundNothing(a) ==
    \/ a.out.error \in NoDataFailures
    \/ a.out.error = "" /\ ~IsSome(a.result)

\* C11: when every quote endpoint the call tried ended in Forbidden,
\* RateLimited, NotFound, another transport failure, or an empty or not-OK
\* body, getStockData raises nothing and returns a quote value for the symbol:
\* the placeholder.
C11_NoDataNeverRaises ==
    (Called /\ \A k \in 1..Len(TheCall.attempts) : FoundNothing(TheCall.attempts[k]))
        => /\ TheCall.thrown = ""
           /\ TheCall.data.isDefault
           /\ TheCall.data.symbol = TheCall.symbol
           /\ TheCall.data.price > 0

C11_Witness ==
    /\ Called
    /\ Len(TheCall.attempts) = 3
    /\ TheCall.attempts[1].out.error = "Forbidden"
    /\ TheCall.attempts[2].out.error = "RateLimited"
    /\ TheCall.attempts[3].out.error = ""
    /\ TheCall.attempts[3].out.status = "NOT_FOUND"
    /\ TheCall.thrown = ""
    /\ TheCall.data.isDefault
    /\ TheCall.data.price = 200

\* the endpoints of the call's attempts, in the order they were made
Endpoints(c) == [k \in 1..Len(c.attempts) |-> c.attempts[k].endpoint]

LivePrice(q) ==
    \/ Truthy(OptPrice(q.last_trade))
    \/ Truthy(OptPrice(q.last_quote))
    \/ Truthy(OptC(q.min))

\* C13: when a live field supplies the price and the same quote carries a
\* non-zero previous close, change = price - previous close, changePercent =
\* change / previous close * 100, and the quote is not degraded; 190 against
\* 188 gives a change of 2 and a changePercent that rounds to 1.06.
C13_ChangeFromPrevClose ==
    (/\ Called
     /\ Resolved(TheCall)
     /\ LivePrice(QuoteOf(TheCall))
     /\ OptC(QuoteOf(TheCall).prevDay) # 0)
        => /\ ~TheCall.data.usesPrevDayAsCurrentPrice
           /\ TheCall.data.change = TheCall.data.price - OptC(QuoteOf(TheCall).prevDay)
           /\ TheCall.data.changePercent.den # 0
           /\ TheCall.data.changePercent.num * OptC(QuoteOf(TheCall).prevDay)
                 = TheCall.data.change * 100 * TheCall.data.changePercent.den
           /\ (TheCall.data.price = 190 /\ OptC(QuoteOf(TheCall).prevDay) = 188)
                 => /\ TheCall.data.change = 2
                    /\ TheCall.data.changePercent.den > 0
                    /\ 1055 * TheCall.data.changePercent.den
                          <= 1000 * TheCall.data.changePercent.num
                    /\ 1000 * TheCall.data.changePercent.num
                          < 1065 * TheCall.data.changePercent.den

C13_Witness ==
    /\ Called
    /\ Resolved(TheCall)
    /\ LastAttempt(TheCall).endpoint = "snapshot"
    /\ OptPrice(QuoteOf(TheCall).last_trade) = 190
    /\ OptC(QuoteOf(TheCall).prevDay) = 188
    /\ TheCall.data.price = 190
    /\ TheCall.data.change = 2
    /\ TheCall.data.changePercent = [num |-> 200, den |-> 188]
    /\ ~TheCall.data.usesPrevDayAsCurrentPrice

\* the step ended in Forbidden, NotFound or another transport failure, or in
\* a body that is empty or not OK
StepFailed(a) ==
    \/ a.out.error \in {"Forbidden", "HttpError", "NetworkError"}
    \/ a.out.error = "" /\ ~IsSome(a.result)

\* the prices the raw results of a successful step can supply
StepPrices(a) ==
    IF a.endpoint = "prev" THEN {a.out.results[1].c}
    ELSE LET r == a.out.results[1]
         IN  {0}
             \cup (IF IsSome(r.last_trade) THEN {Get(r.last_trade).p} ELSE {})
             \cup (IF IsSome(r.last_quote)
                   THEN {(Get(r.last_quote).a + Get(r.last_quote).b) \div 2} ELSE {})
             \cup (IF IsSome(r.min) THEN {Get(r.min).c} ELSE {})
             \cup (IF IsSome(r.prevDay) THEN {Get(r.prevDay).c} ELSE {})

\* C15: a step that ends in Forbidden, NotFound, an empty or not-OK body or
\* another transport failure is followed by the next step of the waterfall
\* (the other endpoint), unless it was the final previous-close step; and when
\* a later step succeeds the returned quote is built from that step's result.
C15_FailedStepIsSkipped ==
    Called =>
        /\ \A k \in 1..Len(TheCall.attempts) :
              StepFailed(TheCall.attempts[k]) =>
                  IF k < Len(TheCall.attempts)
                  THEN TheCall.attempts[k + 1].endpoint # TheCall.attempts[k].endpoint
                  ELSE k >= 2 /\ TheCall.attempts[k].endpoint = "prev"
        /\ IsSome(LastAttempt(TheCall).result) =>
              /\ TheCall.thrown = ""
              /\ ~TheCall.data.isDefault
              /\ TheCall.data.price \in StepPrices(LastAttempt(TheCall))
              /\ \A k \in 1..(Len(TheCall.attempts) - 1) :
                    ~IsSome(TheCall.attempts[k].result)

C15_Witness ==
    /\ Called
    /\ Len(TheCall.attempts) = 3
    /\ TheCall.attempts[1].out.error = "Forbidden"
    /\ TheCall.attempts[2].out.error = "HttpError"
    /\ IsSome(TheCall.attempts[3].result)
    /\ TheCall.attempts[3].out.results[1].c = 100
    /\ ~TheCall.data.isDefault
    /\ TheCall.data.price = 100

\* the six figures of a stock data object
Figures(d) == <<d.price, d.change, d.changePercent, d.volume, d.high, d.low>>

\* the request of getTickerDetails threw (error status, network, missing key)
DetailsFailed(c) == c.details.error # ""

\* the figures do not depend on the details call: a resolved quote converts to
\* the same six figures under every details outcome, and a placeholder is one
\* of the placeholders of the symbol
FiguresIgnoreDetails(c) ==
    IF Resolved(c)
    THEN \A det \in RequestOutcomes(TRUE, DetailsResponses) \cup {Throw("ConfigurationError")} :
             Figures(c.data)
                 = Figures(convertPolygonQuoteToStock(QuoteOf(c), getTickerDetails(c.symbol, det)))
    ELSE \E rnd \in RandomDraws :
             Figures(c.data) = Figures(createDefaultStockData(c.symbol, rnd))

\* C16 (as claimed): the details call never fails the call nor changes the six
\* figures, and whenever it fails the returned name is the symbol, with the
\* exchange unknown.
C16_FailedDetailsNameIsSymbol ==
    Called =>
        /\ TheCall.thrown = ""
        /\ FiguresIgnoreDetails(TheCall)
        /\ DetailsFailed(TheCall) =>
              /\ TheCall.data.name = TheCall.symbol
              /\ IsSome(getTickerDetails(TheCall.symbol, TheCall.details))
              /\ Get(getTickerDetails(TheCall.symbol, TheCall.details)).primary_exchange
                    = "UNKNOWN"

\* C16 (amended): the details call never fails the call nor changes the six
\* figures; when it fails its substitute carries the symbol as name and the
\* exchange UNKNOWN, and the returned name is the symbol if the waterfall
\* produced a quote, and the placeholder's "<symbol> Inc." if it did not.
C16_DetailsNeverFailTheQuote ==
    Called =>
        /\ TheCall.thrown = ""
        /\ FiguresIgnoreDetails(TheCall)
        /\ DetailsFailed(TheCall) =>
              /\ IsSome(getTickerDetails(TheCall.symbol, TheCall.details))
              /\ Get(getTickerDetails(TheCall.symbol, TheCall.details)).name
                    = TheCall.symbol
              /\ Get(getTickerDetails(TheCall.symbol, TheCall.details)).primary_exchange
                    = "UNKNOWN"
              /\ TheCall.data.name = IF Resolved(TheCall) THEN TheCall.symbol
                                     ELSE TheCall.symbol \o " Inc."

C16_Witness ==
    /\ Called
    /\ TheCall.details.error = "NetworkError"
    /\ Resolved(TheCall)
    /\ TheCall.symbol = "AAPL"
    /\ TheCall.data.name = "AAPL"
    /\ TheCall.data.price = 102
    /\ TheCall.data.change = 2

\* the snapshot endpoint supplied the result of the call
SnapshotSucceeded(c) ==
    /\ LastAttempt(c).endpoint = "snapshot"
    /\ IsSome(LastAttempt(c).result)

\* the four price fields of the raw snapshot, 0 when the field is absent
RawTrade(c) ==
    LET r == LastAttempt(c).out.results[1]
    IN  IF IsSome(r.last_trade) THEN Get(r.last_trade).p ELSE 0

RawMidpoint(c) ==
    LET r == LastAttempt(c).out.results[1]
    IN  IF IsSome(r.last_quote)
        THEN (Get(r.last_quote).a + Get(r.last_quote).b) \div 2 ELSE 0

RawMinuteClose(c) ==
    LET r == LastAttempt(c).out.results[1]
    IN  IF IsSome(r.min) THEN Get(r.min).c ELSE 0

RawPrevClose(c) ==
    LET r == LastAttempt(c).out.results[1]
    IN  IF IsSome(r.prevDay) THEN Get(r.prevDay).c ELSE 0

\* C20: when a snapshot succeeds the price is the first populated (present and
\* not 0) of last-trade price, last-quote midpoint (ask + bid) / 2 and
\* intraday-aggregate close, and the quote is then not degraded; the previous
\* day's close is the price only when none of the three is populated.
C20_PricePriority ==
    (Called /\ SnapshotSucceeded(TheCall)) =>
        /\ RawTrade(TheCall) # 0 =>
              /\ TheCall.data.price = RawTrade(TheCall)
              /\ ~TheCall.data.usesPrevDayAsCurrentPrice
        /\ (RawTrade(TheCall) = 0 /\ RawMidpoint(TheCall) # 0) =>
              /\ TheCall.data.price = RawMidpoint(TheCall)
              /\ ~TheCall.data.usesPrevDayAsCurrentPrice
        /\ (RawTrade(TheCall) = 0 /\ RawMidpoint(TheCall) = 0
                /\ RawMinuteClose(TheCall) # 0) =>
              /\ TheCall.data.price = RawMinuteClose(TheCall)
              /\ ~TheCall.data.usesPrevDayAsCurrentPrice
        /\ (RawTrade(TheCall) = 0 /\ RawMidpoint(TheCall) = 0
                /\ RawMinuteClose(TheCall) = 0) =>
              /\ TheCall.data.price = RawPrevClose(TheCall)
              /\ TheCall.data.usesPrevDayAsCurrentPrice <=> RawPrevClose(TheCall) # 0
        /\ TheCall.data.usesPrevDayAsCurrentPrice =>
              /\ RawTrade(TheCall) = 0
              /\ RawMidpoint(TheCall) = 0
              /\ RawMinuteClose(TheCall) = 0

C20_Witness ==
    /\ Called
    /\ SnapshotSucceeded(TheCall)
    /\ ~IsSome(LastAttempt(TheCall).out.results[1].last_trade)
    /\ RawMidpoint(TheCall) = 104
    /\ RawMinuteClose(TheCall) = 103
    /\ RawPrevClose(TheCall) = 100
    /\ TheCall.data.price = 104
    /\ ~TheCall.data.usesPrevDayAsCurrentPrice

\* the modal tells the user that the markets are closed
ModalSaysClosed(t) == getMarketStatusMessage(t) # "Markets are open. Showing live data."

\* the resolver asks the previous close first
PrevCloseFirstPath(t) == isWeekend(t) \/ ~isMarketHours(t)

\* the batch size getMultipleStocksData computes at time t
BatchSizeAt(t) ==
    IF svcIsWeekend(t) \/ ~svcIsMarketHours(t) THEN WeekendBatchSize ELSE MarketBatchSize

\* C27: at every day and hour the modal says "closed" exactly when the resolver
\* takes the previous-close-first path and the orchestrator uses the batch size
\* of 2, and the fallback market status is 'closed' exactly when the resolver
\* treats the time as outside market hours
C27_SameSessionEverywhere ==
    /\ ModalSaysClosed(now) <=> PrevCloseFirstPath(now)
    /\ ModalSaysClosed(now) <=> (BatchSizeAt(now) = WeekendBatchSize)
    /\ (getMarketStatus(now) = "closed") <=> ~isMarketHours(now)

\* a request that reached the network: without a key makeRequest throws before fetch
Sent(out) == out.error # "ConfigurationError"

QuoteRequests(c) == Cardinality({k \in 1..Len(c.attempts) : Sent(c.attempts[k].out)})

PrevRequests(c) ==
    Cardinality({k \in 1..Len(c.attempts) :
                    c.attempts[k].endpoint = "prev" /\ Sent(c.attempts[k].out)})

DetailsRequests(c) == IF Sent(c.details) THEN 1 ELSE 0

\* the previous close is asked twice only off-hours, after a first previous
\* close and a snapshot that both gave no result
SecondPrevOnlyAfterTwoMisses(c) ==
    PrevRequests(c) = 2 =>
        /\ PrevCloseFirstPath(c.at)
        /\ Len(c.attempts) = 3
        /\ Endpoints(c) = <<"prev", "snapshot", "prev">>
        /\ ~IsSome(c.attempts[1].result)
        /\ ~IsSome(c.attempts[2].result)

\* C28 (as claimed): one getStockData call issues at most three quote requests,
\* at most two in market hours, and exactly one ticker-details request; the
\* previous close is requested twice only off-hours after two misses
C28_RequestBudget ==
    Called =>
        /\ QuoteRequests(TheCall) <= 3
        /\ ~PrevCloseFirstPath(TheCall.at) => QuoteRequests(TheCall) <= 2
        /\ DetailsRequests(TheCall) = 1
        /\ SecondPrevOnlyAfterTwoMisses(TheCall)

\* C28 (amended): the budget holds, with exactly one ticker-details request
\* when a key is configured and no request at all when none is
C28_RequestBudgetWithKey ==
    Called =>
        /\ QuoteRequests(TheCall) <= 3
        /\ ~PrevCloseFirstPath(TheCall.at) => QuoteRequests(TheCall) <= 2
        /\ apiKey => DetailsRequests(TheCall) = 1
        /\ ~apiKey => QuoteRequests(TheCall) = 0 /\ DetailsRequests(TheCall) = 0
        /\ SecondPrevOnlyAfterTwoMisses(TheCall)

\* an off-hours call with a key that asked the previous close twice
C28_Witness ==
    /\ Called
    /\ apiKey
    /\ QuoteRequests(TheCall) = 3
    /\ PrevRequests(TheCall) = 2
    /\ DetailsRequests(TheCall) = 1

-----------------------------------------------------------------------------
(* Properties of one getMultipleStocksData call (Spec) *)

SymbolSet == {symbols[k] : k \in 1..Len(symbols)}

Returned == mpc = "returned"

\* ceil(n / b)
CeilDiv(n, b) == (n + b - 1) \div b

\* the slots of the group that was joined last
JoinedSlots == SliceSlots(symbols, i, batchSize)

\* the last slot of the joined group that carries the symbol of slot k
LastSlotOf(k) ==
    CHOOSE j \in JoinedSlots :
        /\ symbols[j] = symbols[k]
        /\ \A m \in JoinedSlots : symbols[m] = symbols[k] => m <= j

\* slot k has completed and its getQuote found nothing
SlotFailed(k) == IsSome(own[k]) /\ ~Resolved(Get(own[k]).call)

SlotResolved(k) == IsSome(own[k]) /\ Resolved(Get(own[k]).call)

\* C1: the mapping getMultipleStocksData returns has exactly the input symbols
\* as its keys.
C1_KeysAreTheSymbols ==
    Returned => DOMAIN results = SymbolSet

C1_Witness ==
    /\ Returned
    /\ Len(symbols) >= 3
    /\ Cardinality(SymbolSet) < Len(symbols)
    /\ \E k \in 1..Len(symbols) : SlotFailed(k)
    /\ \E k \in 1..Len(symbols) : SlotResolved(k)

\* C6: the groups are the consecutive slices of size batchSize of the input,
\* ceil(n / batchSize) of them, with a delay after every group but the last;
\* five symbols on a weekend give groups of 2, 2, 1 and two delays of 2000.
C6_GroupsAndDelays ==
    /\ \A g \in 1..Len(groups) :
          groups[g] = Slice(symbols, (g - 1) * batchSize, g * batchSize)
    /\ \A d \in 1..Len(delays) : delays[d] = delay
    /\ mpc = "fetching" => Len(delays) = Len(groups) - 1
    /\ mpc = "sleeping" => Len(delays) = Len(groups)
    /\ Returned =>
          /\ Len(groups) = CeilDiv(Len(symbols), batchSize)
          /\ Len(delays) = CeilDiv(Len(symbols), batchSize) - 1
          /\ \A g \in 1..Len(groups) :
                Len(groups[g]) = IF g < Len(groups)
                                 THEN batchSize
                                 ELSE Len(symbols) - (g - 1) * batchSize
    /\ (Returned /\ Len(symbols) = 5 /\ svcIsWeekend(calledAt))
          => /\ Len(groups) = 3
             /\ <<Len(groups[1]), Len(groups[2]), Len(groups[3])>> = <<2, 2, 1>>
             /\ delays = <<2000, 2000>>

C6_Witness ==
    /\ Returned
    /\ svcIsWeekend(calledAt)
    /\ Len(symbols) = 5
    /\ groups = <<SubSeq(symbols, 1, 2), SubSeq(symbols, 3, 4), SubSeq(symbols, 5, 5)>>
    /\ delays = <<2000, 2000>>

\* C9 (as claimed): two resolutions of the same symbol that both fail entirely
\* return the same placeholder.
C9_PlaceholderIsDeterministic ==
    \A j, k \in 1..Len(symbols) :
        (SlotFailed(j) /\ SlotFailed(k) /\ symbols[j] = symbols[k])
            => Get(own[j]).entry.data = Get(own[k]).entry.data

\* C10: once a group is joined, the entry of each of its symbols is what that
\* symbol's own resolution returned (the last one, when the group lists the
\* symbol twice), whatever happened to the other symbols of the group; it is
\* a placeholder exactly when that resolution's getQuote failed.
C10_SiblingsAreIsolated ==
    (mpc \in {"sleeping", "returned"}) =>
        \A k \in JoinedSlots :
            /\ IsSome(own[k])
            /\ results[symbols[k]] = Get(own[LastSlotOf(k)]).call.data
            /\ results[symbols[k]].symbol = symbols[k]
            /\ results[symbols[k]].isDefault <=> SlotFailed(LastSlotOf(k))

C10_Witness ==
    /\ mpc \in {"sleeping", "returned"}
    /\ \E j, k \in JoinedSlots :
          /\ symbols[j] # symbols[k]
          /\ SlotFailed(j)
          /\ \A a \in 1..Len(Get(own[j]).call.attempts) :
                Get(own[j]).call.attempts[a].out.error = "Unauthorized"
          /\ results[symbols[j]].isDefault
          /\ SlotResolved(k)
          /\ results[symbols[k]] = Get(own[k]).call.data
          /\ results[symbols[k]].price = 102

\* C18: within one call the only requests in flight are those of the current
\* group; every symbol of the earlier groups has completed (resolved or
\* failed), no symbol of a later group has been requested, and every group
\* after the first was started only after the delay that follows the join of
\* the group before it.
C18_GroupsDoNotOverlap ==
    /\ pending \subseteq (i + 1)..(i + batchSize)
    /\ \A k \in 1..Len(symbols) :
          /\ k > i + batchSize => own[k] = None /\ k \notin pending
          /\ (mpc # "idle" /\ k <= i) => IsSome(own[k]) /\ k \notin pending
          /\ (mpc \in {"sleeping", "returned"} /\ k <= i + batchSize) => IsSome(own[k])
    /\ \A g \in 2..Len(groups) :
          /\ Len(delays) >= g - 1
          /\ delays[g - 1] = delay
          /\ delay > 0

C18_Witness ==
    /\ mpc = "fetching"
    /\ Len(symbols) = 5
    /\ batchSize = 2
    /\ i = 2
    /\ pending = {4}
    /\ SlotFailed(1)
    /\ SlotResolved(2)
    /\ IsSome(own[3])
    /\ own[5] = None
    /\ delays = <<2000>>

-----------------------------------------------------------------------------
(* Properties of the pacing of getMultipleStocksData (SpecPacing) *)

\* the slots of group g
GroupSlots(g) == SliceSlots(symbols, (g - 1) * batchSize, batchSize)

\* a quote endpoint answered RateLimited to a symbol of group g
SawRateLimit(g) ==
    \E k \in GroupSlots(g) :
        /\ IsSome(own[k])
        /\ \E a \in 1..Len(Get(own[k]).call.attempts) :
              Get(own[k]).call.attempts[a].out.error = "RateLimited"

\* the pacing of a call that saw no rate limit
UnlimitedDelay ==
    IF svcIsWeekend(calledAt) \/ ~svcIsMarketHours(calledAt)
    THEN WeekendDelay ELSE MarketDelay

UnlimitedBatchSize ==
    IF svcIsWeekend(calledAt) \/ ~svcIsMarketHours(calledAt)
    THEN WeekendBatchSize ELSE MarketBatchSize

\* C14 (as claimed): a step that ends in RateLimited is followed by the next
\* step of the waterfall, and the group that follows a group in which a quote
\* endpoint answered RateLimited is paced more conservatively: a longer delay
\* before it, or fewer symbols in it, than without the rate limit.
C14_RateLimitSlowsDown ==
    /\ \A k \in 1..Len(symbols) :
          IsSome(own[k]) =>
              \A a \in 1..Len(Get(own[k]).call.attempts) :
                  Get(own[k]).call.attempts[a].out.error = "RateLimited"
                      => \/ a < Len(Get(own[k]).call.attempts)
                         \/ a >= 2 /\ Get(own[k]).call.attempts[a].endpoint = "prev"
    /\ \A g \in 1..(Len(groups) - 1) :
          SawRateLimit(g) =>
              \/ delays[g] > UnlimitedDelay
              \/ Len(groups[g + 1])
                    < Min(UnlimitedBatchSize, Len(symbols) - g * UnlimitedBatchSize)

-----------------------------------------------------------------------------
(* Properties of the Watchlist component (SpecWatch) *)

\* C19: nothing excludes a second batch fetch: when the 5-minute interval
\* comes due on a non-empty watchlist its refresh can start whatever is in
\* flight and whatever isRefreshing says, so that two refreshAllStocks calls
\* for the same watchlist await their getMultipleStocksData at the same time.
C19_RefreshIsNeverExcluded ==
    (/\ mounted
     /\ Len(stocks) > 0
     /\ sinceInterval = IntervalMinutes
     /\ Len(inFlight) \in 1..(MaxInFlight - 1))
        => ENABLED intervalFires

C19_Witness ==
    /\ Len(inFlight) = 2
    /\ inFlight[1].trigger = "mount"
    /\ inFlight[2].trigger = "timer"
    /\ inFlight[1].symbols = <<"AAPL", "XYZ">>
    /\ inFlight[2].symbols = <<"AAPL", "XYZ">>
    /\ isRefreshing

\* C21: while the watchlist is non-empty, at most IntervalMinutes minutes pass
\* between consecutive automatic refresh starts, whatever edits, adds, removes
\* or refresh results happen in between
C21_AutoRefreshEveryFiveMinutes ==
    (mounted /\ Len(stocks) > 0) => sinceAuto <= IntervalMinutes

\* C22: right after a refresh has applied its mapping, every listed stock whose
\* symbol is in the mapping holds the change and changePercent of the new quote
C22_StoredChangeIsTheNewQuotes ==
    IsSome(applied) =>
        \A k \in 1..Len(stocks) :
            stocks[k].symbol \in DOMAIN Get(applied) =>
                /\ stocks[k].change = Get(applied)[stocks[k].symbol].change
                /\ stocks[k].changePercent =
                       Get(applied)[stocks[k].symbol].changePercent

\* C23: isRefreshing is true whenever at least one refresh is in flight
C23_FlagCoversEveryRefreshInFlight ==
    Len(inFlight) >= 1 => isRefreshing

\* C24: a step that applies the result of a refresh leaves the list of ids in
\* its order, and every stock's symbol, name, notes and tags, as they were
C24_RefreshKeepsListAndUserFields ==
    [][Len(inFlight') < Len(inFlight) =>
          /\ Len(stocks') = Len(stocks)
          /\ \A k \in 1..Len(stocks) :
                /\ stocks'[k].id = stocks[k].id
                /\ stocks'[k].symbol = stocks[k].symbol
                /\ stocks'[k].name = stocks[k].name
                /\ stocks'[k].notes = stocks[k].notes
                /\ stocks'[k].tags = stocks[k].tags]_vars

\* the refresh of AAPL and XYZ has just been applied to a list from which XYZ
\* was removed and in which AAPL got a note and a tag meanwhile
C24_Witness ==
    /\ IsSome(applied)
    /\ DOMAIN Get(applied) = {"AAPL", "XYZ"}
    /\ Len(stocks) = 1
    /\ stocks[1].symbol = "AAPL"
    /\ stocks[1].notes = "hold"
    /\ stocks[1].tags = <<"tech">>
    /\ stocks[1].price = Get(applied)["AAPL"].price

-----------------------------------------------------------------------------
(* Properties of the add-stock modal (SpecModal) *)

\* the search found no ticker and the direct lookup of the typed symbol got
\* nothing from any quote endpoint
LookupFoundNothing ==
    /\ isOpen
    /\ searchQuery # ""
    /\ searchResults = <<>>
    /\ Called
    /\ TheCall.symbol = ToUpperCase(searchQuery)
    /\ ~Resolved(TheCall)

\* C25: when the search returns no results and every quote endpoint fails or
\* is empty for the typed symbol, no stock is selected and nothing can be
\* submitted; a stock handed to the watchlist never carries made-up figures
C25_OnlyServedQuotesAreAdded ==
    /\ LookupFoundNothing => ~IsSome(selectedStock) /\ ~ENABLED handleSubmit
    /\ IsSome(added) => ~Get(added).isDefault

-----------------------------------------------------------------------------
(* Properties of the market summary (SpecSummary) *)

\* the market symbols whose resolution failed entirely in the last fetch
FailedMarkets ==
    {marketSymbols[k] : k \in {j \in 1..Len(marketSymbols) :
                                   Get(fetched)[marketSymbols[j]].isDefault}}

\* C26: after a fetch, a market symbol whose resolution failed entirely is shown
\* with price 0 ('No data'), and when all three failed the fallback rows are
\* shown with the error 'Failed to load market data'
C26_FailuresShowNoDataOrFallback ==
    IsSome(fetched) =>
        IF Cardinality(FailedMarkets) = Len(marketSymbols)
        THEN /\ error = "Failed to load market data"
             /\ marketData = fallbackData
        ELSE \A k \in 1..Len(marketSymbols) :
                marketSymbols[k] \in FailedMarkets => marketData[k].price = 0

-----------------------------------------------------------------------------
(* Properties of the database-backed watchlist (SpecDb) *)

\* C29: the select-all checkbox is checked only when every filtered stock is
\* selected and no selected id lies outside the filtered list
C29_CheckedMeansExactlyTheFilteredStocks ==
    SelectAllChecked => SelectedIds = FilteredIds

-----------------------------------------------------------------------------
(* Termination of getMultipleStocksData (SpecLive) *)

\* the call has returned a mapping with an entry for every symbol of the list
ReturnedMapping ==
    /\ mpc = "returned"
    /\ DOMAIN results = {symbols[k] : k \in 1..Len(symbols)}

\* C30: every getMultipleStocksData call that was made eventually returns its
\* mapping, whatever fails for the individual symbols
C30_EveryCallReturns == (mpc # "idle") ~> ReturnedMapping

\* a call over two groups has returned although no symbol got a quote
C30_Witness ==
    /\ ReturnedMapping
    /\ Len(groups) >= 2
    /\ Len(delays) >= 1
    /\ \A k \in 1..Len(symbols) : results[symbols[k]].isDefault

=============================================================================
